---- MODULE Spec2Model ----
(***************************************************************************)
(* A model of the CHIP-8 interpreter core of src/src/vm.rs: the VM struct  *)
(* (memory, call stack, register file, random source), its host-facing     *)
(* operations (reset, load_rom, the memory accessors, direct writes of the *)
(* public register fields) and step(), with one action per opcode handler. *)
(*                                                                         *)
(* A Rust panic (index out of bounds, arithmetic overflow in a build with  *)
(* overflow checks, panic!, unimplemented!) ends the step where it is      *)
(* raised: the assignments made before it stay, status becomes "panicked"  *)
(* and no further step is taken until the host resets the machine.         *)
(* Integer overflow panics in a build with overflow checks and wraps in a  *)
(* build without them: each overflowing operation has both outcomes.       *)
(***************************************************************************)
EXTENDS Integers, Sequences, FiniteSets, TLC

\* ---------------------------------------------------------------- constants
MEMORY_SIZE == 4096
STACK_SIZE == 16
V_REG_SIZE == 16
INITIAL_PC == 512

\* ------------------------------------------------------------------- bounds
\* Steps taken since the last reset (caps loops of the loaded program).
MaxSteps == 18
\* Bytes drawn from the random source since construction.
MaxRnd == 2

\* ------------------------------------------------------------ integer types
U8 == 256
U16 == 65536

\* `x as u8`, `x as u16` of a mathematical integer (two's-complement wrap).
AsU8(n) == n % U8
AsU16(n) == n % U16
\* `b as i8` of a u8.
AsI8(b) == IF b >= 128 THEN b - 256 ELSE b

Bit(a, k) == (a \div (2 ^ k)) % 2

\* Bitwise operators on 16-bit operands.
BitAnd(a, b) ==
    LET f[k \in 0..16] ==
            IF k = 16 THEN 0 ELSE Bit(a, k) * Bit(b, k) * (2 ^ k) + f[k + 1]
    IN  f[0]

BitOr(a, b) ==
    LET f[k \in 0..16] ==
            IF k = 16 THEN 0
            ELSE (IF Bit(a, k) + Bit(b, k) > 0 THEN 2 ^ k ELSE 0) + f[k + 1]
    IN  f[0]

BitXor(a, b) ==
    LET f[k \in 0..16] ==
            IF k = 16 THEN 0
            ELSE ((Bit(a, k) + Bit(b, k)) % 2) * (2 ^ k) + f[k + 1]
    IN  f[0]

\* ------------------------------------------------------------ operand fields
\* opcode >> 12
OpOf(opcode) == opcode \div 4096
\* (opcode >> 8) & 0x000f
XOf(opcode) == BitAnd(opcode \div 256, 15)
\* (opcode >> 4) & 0x000f
YOf(opcode) == BitAnd(opcode \div 16, 15)
\* opcode & 0x000f
NOf(opcode) == BitAnd(opcode, 15)
\* opcode & 0x00ff
KKOf(opcode) == BitAnd(opcode, 255)
\* opcode & 0x0fff
NNNOf(opcode) == BitAnd(opcode, 4095)

\* The word with nibbles a, b, c, d (0xabcd).
Word(a, b, c, d) == 4096 * a + 256 * b + 16 * c + d

\* -------------------------------------------------------------------- state
VARIABLES
    memory,           \* VM.memory: the addresses holding a nonzero byte, with that byte
    stack,            \* VM.stack: [u16; STACK_SIZE]
    v,                \* Registers.v: [u8; V_REG_SIZE]
    i,                \* Registers.i: u16
    pc,               \* Registers.pc: u16
    sp,               \* Registers.sp: u16
    delay_timer,      \* Registers.delay_timer: u8
    sound_timer,      \* Registers.sound_timer: u8
    random,           \* VM.random: the number of bytes drawn from the seeded stream
    status,           \* "running", or "panicked" after a panic
    opcode,           \* the word fetched by the last step (NoOpcode: none)
    steps,            \* steps taken since the last reset
    pre,              \* v, i, pc, sp as they were before the last step
    call,             \* the CALL that is the last completed stack operation
    calls,            \* the addresses of the CALLs not yet matched by a RET, oldest first
    drawn             \* bytes drawn from the random source since the last reset

machine == <<memory, stack, v, i, pc, sp, delay_timer, sound_timer, random, status>>
vars == <<memory, stack, v, i, pc, sp, delay_timer, sound_timer, random,
          status, opcode, steps, pre, call, calls, drawn>>

NoOpcode == U16
NoCall == [active |-> FALSE, pc |-> 0, sp |-> 0]
Snapshot == [v |-> v, i |-> i, pc |-> pc, sp |-> sp]

\* memory.fill(0): no address of 0..MEMORY_SIZE-1 holds a nonzero byte.
ZeroMemory == <<>>
ZeroStack == [s \in 0..(STACK_SIZE - 1) |-> 0]
ZeroV == [r \in 0..(V_REG_SIZE - 1) |-> 0]

\* VM::new()
Init ==
    /\ memory = ZeroMemory
    /\ stack = ZeroStack
    /\ v = ZeroV
    /\ i = 0
    /\ pc = INITIAL_PC
    /\ sp = STACK_SIZE
    /\ delay_timer = 0
    /\ sound_timer = 0
    /\ random = 0
    /\ status = "running"
    /\ opcode = NoOpcode
    /\ steps = 0
    /\ pre = [v |-> ZeroV, i |-> 0, pc |-> INITIAL_PC, sp |-> STACK_SIZE]
    /\ call = NoCall
    /\ calls = <<>>
    /\ drawn = 0

\* ---------------------------------------------------------- memory access
\* mem[address] for an address of 0..MEMORY_SIZE-1.
Load(mem, address) == IF address \in DOMAIN mem THEN mem[address] ELSE 0

\* mem after mem[address] = value, for an address of 0..MEMORY_SIZE-1.
Store(mem, address, value) ==
    IF value = 0
    THEN [a \in DOMAIN mem \ {address} |-> mem[a]]
    ELSE [a \in DOMAIN mem \cup {address} |-> IF a = address THEN value ELSE mem[a]]

read_u8(address) == Load(memory, address)

\* ((memory[address] as u16) << 8) | memory[address + 1] as u16
read_u16(address) ==
    BitOr(AsU16(Load(memory, address) * 256), Load(memory, address + 1))

\* The memory after write_u8(address, value).
write_u8(mem, address, value) == Store(mem, address, value)

\* write_u16 that stores the low byte at the lower address.
write_u16_little_endian(mem, address, value) ==
    Store(Store(mem, address, AsU8(BitAnd(value, 255))),
          address + 1, AsU8(value \div 256))

\* The memory after write_u16(address, value).
write_u16(mem, address, value) ==
    Store(Store(mem, address, AsU8(value \div 256)),
          address + 1, AsU8(BitAnd(value, 255)))

\* ------------------------------------------------------------ host inputs
\* Register indices and byte values the host and the programs use.
RegValues == {0, 1, 128}
PokedRegs == {0, 1, 15}
AddrValues == {10, 4095}
\* The first bytes that gen::<u8>() returns from ChaCha8Rng::seed_from_u64(0)
\* (tests::opcode_cxkk: the first byte AND 0x33 is 0x20).
RandomBytes == <<108, 103, 55, 95>>

\* The instruction words programs are made of: every handler of the decoder,
\* with the operand combinations the handlers distinguish.
Opcodes ==
    {Word(0, 0, 14, 0), Word(0, 0, 14, 14), Word(0, 0, 0, 0)}
    \cup {Word(1, 2, 0, 0), Word(1, 1, 2, 3), Word(1, 15, 15, 15)}
    \cup {Word(2, 2, 0, 0), Word(2, 2, 0, 2)}
    \cup {Word(3, 0, 0, 1), Word(3, 15, 8, 0), Word(4, 0, 0, 1), Word(4, 15, 8, 0)}
    \cup {Word(5, 0, 1, 0), Word(5, 1, 15, 0), Word(5, 0, 1, 1)}
    \cup {Word(9, 0, 1, 0), Word(9, 1, 15, 0), Word(9, 0, 1, 1)}
    \cup {Word(6, 1, 0, 5), Word(7, 0, 0, 1), Word(7, 1, 15, 15), Word(7, 15, 8, 0)}
    \cup {Word(8, xy[1], xy[2], n) :
            xy \in {<<0, 1>>, <<1, 15>>, <<15, 0>>},
            n \in {0, 1, 2, 3, 4, 5, 6, 7, 14}}
    \cup {Word(8, 0, 1, n) : n \in {8, 9, 10, 11, 12, 13, 15}}
    \cup {Word(10, 0, 0, 10), Word(10, 15, 15, 15)}
    \cup {Word(11, 0, 1, 2), Word(11, 15, 15, 15)}
    \cup {Word(12, 0, 15, 15), Word(12, 1, 0, 15), Word(12, 0, 0, 0)}
    \cup {Word(13, 0, 1, 1)}
    \cup {Word(14, 0, 9, 14), Word(14, 0, 10, 1), Word(14, 0, 0, 0)}
    \cup {Word(15, 0, 0, 7), Word(15, 0, 0, 10), Word(15, 1, 1, 5), Word(15, 1, 1, 8),
          Word(15, 1, 1, 14), Word(15, 0, 2, 9), Word(15, 0, 3, 3)}
    \cup {Word(15, x, 5, 5) : x \in {0, 1, 3, 15}}
    \cup {Word(15, x, 6, 5) : x \in {0, 1, 3, 15}}
    \cup {Word(15, 0, 0, 0), Word(15, 0, 15, 15), Word(15, 1, 5, 6)}

\* The words used in programs of two instructions.
SeqOpcodes ==
    {Word(0, 0, 14, 14), Word(2, 2, 0, 2), Word(12, 0, 15, 15),
     Word(15, 1, 5, 5), Word(15, 1, 6, 5), Word(15, 15, 5, 5), Word(15, 15, 6, 5)}

\* A program image: the big-endian bytes of its words.
RomBytes(w) == <<w \div 256, w % 256>>
Roms ==
    {RomBytes(w) : w \in Opcodes}
    \cup {RomBytes(w1) \o RomBytes(w2) : w1 \in SeqOpcodes, w2 \in SeqOpcodes}
    \cup {RomBytes(Word(6, 3, 0, 3)) \o RomBytes(Word(15, 3, 5, 5)),
          RomBytes(Word(15, 1, 1, 5)) \o RomBytes(Word(15, 0, 0, 7)),
          RomBytes(Word(15, 1, 1, 8)) \o RomBytes(Word(15, 0, 0, 7))}

\* reset() that forgets memory.fill(0).
Reset_keeps_memory ==
    /\ stack' = ZeroStack
    /\ v' = ZeroV
    /\ i' = 0
    /\ pc' = INITIAL_PC
    /\ sp' = STACK_SIZE
    /\ delay_timer' = 0
    /\ sound_timer' = 0
    /\ status' = "running"
    /\ opcode' = NoOpcode
    /\ steps' = 0
    /\ pre' = [v |-> ZeroV, i |-> 0, pc |-> INITIAL_PC, sp |-> STACK_SIZE]
    /\ call' = NoCall
    /\ calls' = <<>>
    /\ drawn' = 0
    /\ UNCHANGED <<memory, random>>

\* ------------------------------------------------------------------- reset
\* Registers::reset and VM::reset: the random source is left as it is.
Reset ==
    /\ memory' = ZeroMemory
    /\ stack' = ZeroStack
    /\ v' = ZeroV
    /\ i' = 0
    /\ pc' = INITIAL_PC
    /\ sp' = STACK_SIZE
    /\ delay_timer' = 0
    /\ sound_timer' = 0
    /\ status' = "running"
    /\ opcode' = NoOpcode
    /\ steps' = 0
    /\ pre' = [v |-> ZeroV, i |-> 0, pc |-> INITIAL_PC, sp |-> STACK_SIZE]
    /\ call' = NoCall
    /\ calls' = <<>>
    /\ drawn' = 0
    /\ UNCHANGED random

\* The loop of load_rom: memory[pc + i] = bytes[i] for i in 0..bytes.len(),
\* up to the first address out of memory.
CopyRom(mem, base, bytes) ==
    LET f[k \in 0..Len(bytes)] ==
            IF k = 0 THEN mem
            ELSE IF base + k - 1 < MEMORY_SIZE
            THEN Store(f[k - 1], base + k - 1, bytes[k])
            ELSE f[k - 1]
    IN  f[Len(bytes)]

\* The machine is as reset() leaves it.
IsReset ==
    /\ steps = 0
    /\ status = "running"
    /\ v = ZeroV
    /\ i = 0
    /\ memory = ZeroMemory

\* VM::load_rom with the file's bytes: reset, then copy the image to pc. The
\* host loads a machine that is fresh or reset (load_rom resets it anyway).
LoadRom(bytes) ==
    /\ IsReset
    /\ memory' = CopyRom(ZeroMemory, INITIAL_PC, bytes)
    /\ stack' = ZeroStack
    /\ v' = ZeroV
    /\ i' = 0
    /\ pc' = INITIAL_PC
    /\ sp' = STACK_SIZE
    /\ delay_timer' = 0
    /\ sound_timer' = 0
    /\ status' = IF INITIAL_PC + Len(bytes) > MEMORY_SIZE THEN "panicked" ELSE "running"
    /\ opcode' = NoOpcode
    /\ steps' = 0
    /\ pre' = [v |-> ZeroV, i |-> 0, pc |-> INITIAL_PC, sp |-> STACK_SIZE]
    /\ call' = NoCall
    /\ calls' = <<>>
    /\ drawn' = 0
    /\ UNCHANGED random

\* The host assigns the public field regs.v[x] before running the program.
SetV(x, value) ==
    /\ status = "running"
    /\ steps = 0
    /\ v' = [v EXCEPT ![x] = value]
    /\ pre' = [pre EXCEPT !.v = v']
    /\ UNCHANGED <<memory, stack, i, pc, sp, delay_timer, sound_timer, random,
                   status, opcode, steps, call, calls, drawn>>

\* The host assigns the public field regs.i before running the program.
SetI(value) ==
    /\ status = "running"
    /\ steps = 0
    /\ i' = value
    /\ pre' = [pre EXCEPT !.i = value]
    /\ UNCHANGED <<memory, stack, v, pc, sp, delay_timer, sound_timer, random,
                   status, opcode, steps, call, calls, drawn>>

\* ---------------------------------------------------------------- handlers
Running == status' = "running"
Panic == status' = "panicked"

\* CLS
process_opcode_00e0 ==
    /\ Panic
    /\ UNCHANGED <<memory, stack, v, i, pc, sp, delay_timer, sound_timer, random>>

\* RET that leaves the popped slot as it is.
process_opcode_00ee_stale ==
    IF sp >= STACK_SIZE
    THEN /\ Panic
         /\ UNCHANGED <<memory, stack, v, i, pc, sp, delay_timer, sound_timer, random>>
    ELSE /\ pc' = stack[sp]
         /\ sp' = sp + 1
         /\ Running
         /\ UNCHANGED <<memory, stack, v, i, delay_timer, sound_timer, random>>

\* RET without the bounds check of stack[sp]: an empty stack pops a 0.
process_opcode_00ee_unchecked ==
    /\ pc' = IF sp < STACK_SIZE THEN stack[sp] ELSE 0
    /\ stack' = IF sp < STACK_SIZE THEN [stack EXCEPT ![sp] = 0] ELSE stack
    /\ sp' = AsU16(sp + 1)
    /\ Running
    /\ UNCHANGED <<memory, v, i, delay_timer, sound_timer, random>>

\* RET
process_opcode_00ee ==
    IF sp >= STACK_SIZE
    THEN /\ Panic
         /\ UNCHANGED <<memory, stack, v, i, pc, sp, delay_timer, sound_timer, random>>
    ELSE /\ pc' = stack[sp]
         /\ stack' = [stack EXCEPT ![sp] = 0]
         /\ sp' = sp + 1
         /\ Running
         /\ UNCHANGED <<memory, v, i, delay_timer, sound_timer, random>>

\* SYS addr as a no-op that advances pc.
process_opcode_0nnn_ignored(value) ==
    /\ pc' = pc + 2
    /\ Running
    /\ UNCHANGED <<memory, stack, v, i, sp, delay_timer, sound_timer, random>>

\* SYS addr
process_opcode_0nnn(value) ==
    /\ Panic
    /\ UNCHANGED <<memory, stack, v, i, pc, sp, delay_timer, sound_timer, random>>

process_opcode_0(word) ==
    LET value == NNNOf(word)
    IN  \/ value = 238 /\ process_opcode_00ee
        \/ value = 224 /\ process_opcode_00e0
        \/ value \notin {238, 224} /\ process_opcode_0nnn(value)

\* JP addr
process_opcode_1nnn(word) ==
    /\ pc' = NNNOf(word)
    /\ Running
    /\ UNCHANGED <<memory, stack, v, i, sp, delay_timer, sound_timer, random>>

\* CALL that pushes the target of the call instead of the return address.
process_opcode_2nnn_pushes_target(word) ==
    LET sp1 == AsU16(sp - 1)
        overflow == sp < 1
    IN  /\ \E checked \in BOOLEAN :
              IF overflow /\ checked
              THEN Panic /\ pc' = pc + 2 /\ UNCHANGED <<sp, stack>>
              ELSE IF sp1 >= STACK_SIZE
              THEN Panic /\ pc' = pc + 2 /\ sp' = sp1 /\ UNCHANGED stack
              ELSE /\ Running
                   /\ sp' = sp1
                   /\ stack' = [stack EXCEPT ![sp1] = NNNOf(word)]
                   /\ pc' = NNNOf(word)
        /\ UNCHANGED <<memory, v, i, delay_timer, sound_timer, random>>

\* CALL whose stack index wraps around the stack instead of panicking.
process_opcode_2nnn_wraps(word) ==
    LET sp1 == (sp + STACK_SIZE - 1) % STACK_SIZE
    IN  /\ Running
        /\ sp' = sp1
        /\ stack' = [stack EXCEPT ![sp1] = pc + 2]
        /\ pc' = NNNOf(word)
        /\ UNCHANGED <<memory, v, i, delay_timer, sound_timer, random>>

\* CALL addr
process_opcode_2nnn(word) ==
    LET sp1 == AsU16(sp - 1)
        overflow == sp < 1
    IN  /\ \E checked \in BOOLEAN :
              IF overflow /\ checked
              THEN Panic /\ pc' = pc + 2 /\ UNCHANGED <<sp, stack>>
              ELSE IF sp1 >= STACK_SIZE
              THEN Panic /\ pc' = pc + 2 /\ sp' = sp1 /\ UNCHANGED stack
              ELSE /\ Running
                   /\ sp' = sp1
                   /\ stack' = [stack EXCEPT ![sp1] = pc + 2]
                   /\ pc' = NNNOf(word)
        /\ UNCHANGED <<memory, v, i, delay_timer, sound_timer, random>>

\* SE Vx, byte
process_opcode_3xkk(word) ==
    LET x == XOf(word)
        kk == KKOf(word)
    IN  /\ pc' = IF v[x] = kk THEN pc + 2 + 2 ELSE pc + 2
        /\ Running
        /\ UNCHANGED <<memory, stack, v, i, sp, delay_timer, sound_timer, random>>

\* SNE Vx, byte with the comparison of SE.
process_opcode_4xkk_eq(word) ==
    LET x == XOf(word)
        kk == KKOf(word)
    IN  /\ pc' = IF v[x] = kk THEN pc + 2 + 2 ELSE pc + 2
        /\ Running
        /\ UNCHANGED <<memory, stack, v, i, sp, delay_timer, sound_timer, random>>

\* SNE Vx, byte
process_opcode_4xkk(word) ==
    LET x == XOf(word)
        kk == KKOf(word)
    IN  /\ pc' = IF v[x] # kk THEN pc + 2 + 2 ELSE pc + 2
        /\ Running
        /\ UNCHANGED <<memory, stack, v, i, sp, delay_timer, sound_timer, random>>

\* SE Vx, Vy
process_opcode_5xy0(word) ==
    LET x == XOf(word)
        y == YOf(word)
    IN  /\ pc' = IF v[x] = v[y] THEN pc + 2 + 2 ELSE pc + 2
        /\ Running
        /\ UNCHANGED <<memory, stack, v, i, sp, delay_timer, sound_timer, random>>

\* LD Vx, byte
process_opcode_6xkk(word) ==
    LET x == XOf(word)
        kk == KKOf(word)
    IN  /\ pc' = pc + 2
        /\ v' = [v EXCEPT ![x] = kk]
        /\ Running
        /\ UNCHANGED <<memory, stack, i, sp, delay_timer, sound_timer, random>>

\* ADD Vx, byte: `+=` on u8 panics on overflow in a build with overflow checks.
process_opcode_7xkk(word) ==
    LET x == XOf(word)
        kk == KKOf(word)
        overflow == v[x] + kk >= U8
    IN  /\ pc' = pc + 2
        /\ \E checked \in BOOLEAN :
              IF overflow /\ checked
              THEN Panic /\ UNCHANGED v
              ELSE Running /\ v' = [v EXCEPT ![x] = AsU8(v[x] + kk)]
        /\ UNCHANGED <<memory, stack, i, sp, delay_timer, sound_timer, random>>

\* The frame of the 8xyN handlers: they write pc and v only.
AluFrame == UNCHANGED <<memory, stack, i, sp, delay_timer, sound_timer, random>>

\* LD Vx, Vy
process_opcode_8xy0(x, y) ==
    /\ pc' = pc + 2
    /\ v' = [v EXCEPT ![x] = v[y]]
    /\ Running
    /\ AluFrame

\* OR Vx, Vy
process_opcode_8xy1(x, y) ==
    /\ pc' = pc + 2
    /\ v' = [v EXCEPT ![x] = BitOr(v[x], v[y])]
    /\ Running
    /\ AluFrame

\* AND Vx, Vy
process_opcode_8xy2(x, y) ==
    /\ pc' = pc + 2
    /\ v' = [v EXCEPT ![x] = BitAnd(v[x], v[y])]
    /\ Running
    /\ AluFrame

\* XOR Vx, Vy
process_opcode_8xy3(x, y) ==
    /\ pc' = pc + 2
    /\ v' = [v EXCEPT ![x] = BitXor(v[x], v[y])]
    /\ Running
    /\ AluFrame

\* ADD Vx, Vy that writes VF before it reads the operands of the sum.
process_opcode_8xy4_flag_first(x, y) ==
    LET v1 == [v EXCEPT ![15] = IF v[x] + v[y] > 255 THEN 1 ELSE 0]
    IN  /\ pc' = pc + 2
        /\ v' = [v1 EXCEPT ![x] = BitAnd(v1[x] + v1[y], 255)]
        /\ Running
        /\ AluFrame

\* ADD Vx, Vy: the sum is taken first, Vx is written, then VF.
process_opcode_8xy4(x, y) ==
    LET value == v[x] + v[y]
        v1 == [v EXCEPT ![x] = BitAnd(value, 255)]
    IN  /\ pc' = pc + 2
        /\ v' = [v1 EXCEPT ![15] = IF value > 255 THEN 1 ELSE 0]
        /\ Running
        /\ AluFrame

\* SUB Vx, Vy: VF is written first; the difference is then taken from the
\* registers as they are, in i8, which overflows outside -128..127.
process_opcode_8xy5(x, y) ==
    LET v1 == [v EXCEPT ![15] = IF v[x] > v[y] THEN 1 ELSE 0]
        d == AsI8(v1[x]) - AsI8(v1[y])
        overflow == d < -128 \/ d > 127
    IN  /\ pc' = pc + 2
        /\ \E checked \in BOOLEAN :
              IF overflow /\ checked
              THEN Panic /\ v' = v1
              ELSE Running /\ v' = [v1 EXCEPT ![x] = AsU8(d)]
        /\ AluFrame

\* SHR Vx, Vy that shifts Vy into Vx.
process_opcode_8xy6_vy(x, y) ==
    LET v1 == [v EXCEPT ![15] = BitAnd(v[y], 1)]
    IN  /\ pc' = pc + 2
        /\ v' = [v1 EXCEPT ![x] = v1[y] \div 2]
        /\ Running
        /\ AluFrame

\* SHR Vx {, Vy}: VF is written first, then Vx is shifted.
process_opcode_8xy6(x, y) ==
    LET v1 == [v EXCEPT ![15] = BitAnd(v[x], 1)]
    IN  /\ pc' = pc + 2
        /\ v' = [v1 EXCEPT ![x] = v1[x] \div 2]
        /\ Running
        /\ AluFrame

\* SUBN Vx, Vy
process_opcode_8xy7(x, y) ==
    LET v1 == [v EXCEPT ![15] = IF v[y] > v[x] THEN 1 ELSE 0]
        d == AsI8(v1[y]) - AsI8(v1[x])
        overflow == d < -128 \/ d > 127
    IN  /\ pc' = pc + 2
        /\ \E checked \in BOOLEAN :
              IF overflow /\ checked
              THEN Panic /\ v' = v1
              ELSE Running /\ v' = [v1 EXCEPT ![x] = AsU8(d)]
        /\ AluFrame

\* SHL Vx {, Vy}: VF is written first (Vx & 1), then Vx is shifted.
process_opcode_8xye(x, y) ==
    LET v1 == [v EXCEPT ![15] = BitAnd(v[x], 1)]
    IN  /\ pc' = pc + 2
        /\ v' = [v1 EXCEPT ![x] = AsU8(v1[x] * 2)]
        /\ Running
        /\ AluFrame

\* A sub-dispatch that skips a word it does not know.
invalid_opcode_skipped(word) ==
    /\ pc' = pc + 2
    /\ Running
    /\ UNCHANGED <<memory, stack, v, i, sp, delay_timer, sound_timer, random>>

\* panic!("Invalid opcode ...") of a sub-dispatch
invalid_opcode(word) ==
    /\ Panic
    /\ UNCHANGED <<memory, stack, v, i, pc, sp, delay_timer, sound_timer, random>>

process_opcode_8(word) ==
    LET x == XOf(word)
        y == YOf(word)
        op == NOf(word)
    IN  \/ op = 0 /\ process_opcode_8xy0(x, y)
        \/ op = 1 /\ process_opcode_8xy1(x, y)
        \/ op = 2 /\ process_opcode_8xy2(x, y)
        \/ op = 3 /\ process_opcode_8xy3(x, y)
        \/ op = 4 /\ process_opcode_8xy4(x, y)
        \/ op = 5 /\ process_opcode_8xy5(x, y)
        \/ op = 6 /\ process_opcode_8xy6(x, y)
        \/ op = 7 /\ process_opcode_8xy7(x, y)
        \/ op = 14 /\ process_opcode_8xye(x, y)
        \/ op \notin {0, 1, 2, 3, 4, 5, 6, 7, 14} /\ invalid_opcode(word)

\* SNE Vx, Vy
process_opcode_9xy0(word) ==
    LET x == XOf(word)
        y == YOf(word)
    IN  /\ pc' = IF v[x] # v[y] THEN pc + 2 + 2 ELSE pc + 2
        /\ Running
        /\ UNCHANGED <<memory, stack, v, i, sp, delay_timer, sound_timer, random>>

\* LD I, addr that forgets to advance pc.
process_opcode_annn_no_advance(word) ==
    /\ i' = NNNOf(word)
    /\ Running
    /\ UNCHANGED <<memory, stack, v, pc, sp, delay_timer, sound_timer, random>>

\* LD I, addr
process_opcode_annn(word) ==
    /\ pc' = pc + 2
    /\ i' = NNNOf(word)
    /\ Running
    /\ UNCHANGED <<memory, stack, v, sp, delay_timer, sound_timer, random>>

\* JP V0, addr that takes V0 as the high byte of the offset.
process_opcode_bnnn_shifted(word) ==
    /\ pc' = AsU16(v[0] * U8 + NNNOf(word))
    /\ Running
    /\ UNCHANGED <<memory, stack, v, i, sp, delay_timer, sound_timer, random>>

\* JP V0, addr
process_opcode_bnnn(word) ==
    /\ pc' = v[0] + NNNOf(word)
    /\ Running
    /\ UNCHANGED <<memory, stack, v, i, sp, delay_timer, sound_timer, random>>

\* RND Vx, byte that ors the drawn byte with kk.
process_opcode_cxkk_or(word) ==
    LET x == XOf(word)
        kk == KKOf(word)
    IN  /\ random < MaxRnd
        /\ random' = random + 1
        /\ v' = [v EXCEPT ![x] = BitOr(RandomBytes[random + 1], kk)]
        /\ pc' = pc + 2
        /\ Running
        /\ UNCHANGED <<memory, stack, i, sp, delay_timer, sound_timer>>

\* RND Vx, byte: the next byte of the seeded stream is drawn.
process_opcode_cxkk(word) ==
    LET x == XOf(word)
        kk == KKOf(word)
    IN  /\ random < MaxRnd
        /\ random' = random + 1
        /\ v' = [v EXCEPT ![x] = BitAnd(RandomBytes[random + 1], kk)]
        /\ pc' = pc + 2
        /\ Running
        /\ UNCHANGED <<memory, stack, i, sp, delay_timer, sound_timer>>

\* DRW Vx, Vy, nibble
process_opcode_dxyn(word) ==
    /\ Panic
    /\ UNCHANGED <<memory, stack, v, i, pc, sp, delay_timer, sound_timer, random>>

\* SKP Vx
process_opcode_ex9e(x) ==
    /\ Panic
    /\ UNCHANGED <<memory, stack, v, i, pc, sp, delay_timer, sound_timer, random>>

\* SKNP Vx
process_opcode_exa1(x) ==
    /\ Panic
    /\ UNCHANGED <<memory, stack, v, i, pc, sp, delay_timer, sound_timer, random>>

process_opcode_e(word) ==
    LET x == XOf(word)
        op == KKOf(word)
    IN  \/ op = 158 /\ process_opcode_ex9e(x)
        \/ op = 161 /\ process_opcode_exa1(x)
        \/ op \notin {158, 161} /\ invalid_opcode(word)

\* LD Vx, DT that reads the sound timer.
process_opcode_fx07_sound(x) ==
    /\ pc' = pc + 2
    /\ v' = [v EXCEPT ![x] = sound_timer]
    /\ Running
    /\ UNCHANGED <<memory, stack, i, sp, delay_timer, sound_timer, random>>

\* LD Vx, DT
process_opcode_fx07(x) ==
    /\ pc' = pc + 2
    /\ v' = [v EXCEPT ![x] = delay_timer]
    /\ Running
    /\ UNCHANGED <<memory, stack, i, sp, delay_timer, sound_timer, random>>

\* LD Vx, K
process_opcode_fx0a(x) ==
    /\ Panic
    /\ UNCHANGED <<memory, stack, v, i, pc, sp, delay_timer, sound_timer, random>>

\* LD DT, Vx
process_opcode_fx15(x) ==
    /\ pc' = pc + 2
    /\ delay_timer' = v[x]
    /\ Running
    /\ UNCHANGED <<memory, stack, v, i, sp, sound_timer, random>>

\* LD ST, Vx
process_opcode_fx18(x) ==
    /\ pc' = pc + 2
    /\ sound_timer' = v[x]
    /\ Running
    /\ UNCHANGED <<memory, stack, v, i, sp, delay_timer, random>>

\* ADD I, Vx: `+=` on u16 panics on overflow in a build with overflow checks.
process_opcode_fx1e(x) ==
    LET overflow == i + v[x] >= U16
    IN  /\ pc' = pc + 2
        /\ \E checked \in BOOLEAN :
              IF overflow /\ checked
              THEN Panic /\ UNCHANGED i
              ELSE Running /\ i' = AsU16(i + v[x])
        /\ UNCHANGED <<memory, stack, v, sp, delay_timer, sound_timer, random>>

\* LD F, Vx
process_opcode_fx29(x) ==
    /\ Panic
    /\ UNCHANGED <<memory, stack, v, i, pc, sp, delay_timer, sound_timer, random>>

\* LD B, Vx
process_opcode_fx33(x) ==
    /\ Panic
    /\ UNCHANGED <<memory, stack, v, i, pc, sp, delay_timer, sound_timer, random>>

\* The loop of Fx55: memory[address + k] = v[k] for k in 0..=x, up to the
\* first address out of memory.
StoreRegs(mem, address, x) ==
    LET f[k \in 0..(x + 1)] ==
            IF k = 0 THEN mem
            ELSE IF address + k - 1 < MEMORY_SIZE
            THEN Store(f[k - 1], address + k - 1, v[k - 1])
            ELSE f[k - 1]
    IN  f[x + 1]

\* LD [I], Vx that leaves I after the stored block.
process_opcode_fx55_advances_i(x) ==
    /\ pc' = pc + 2
    /\ memory' = StoreRegs(memory, i, x)
    /\ i' = AsU16(i + x + 1)
    /\ IF i + x >= MEMORY_SIZE THEN Panic ELSE Running
    /\ UNCHANGED <<stack, v, sp, delay_timer, sound_timer, random>>

\* LD [I], Vx that stores registers 0..x-1 only.
process_opcode_fx55_exclusive(x) ==
    /\ pc' = pc + 2
    /\ memory' = StoreRegs(memory, i, x - 1)
    /\ IF i + x >= MEMORY_SIZE THEN Panic ELSE Running
    /\ UNCHANGED <<stack, v, i, sp, delay_timer, sound_timer, random>>

\* LD [I], Vx: registers 0..=x are stored in order; the first address out of
\* memory panics, after the stores before it.
process_opcode_fx55(x) ==
    /\ pc' = pc + 2
    /\ memory' = StoreRegs(memory, i, x)
    /\ IF i + x >= MEMORY_SIZE THEN Panic ELSE Running
    /\ UNCHANGED <<stack, v, i, sp, delay_timer, sound_timer, random>>

\* LD Vx, [I]: registers 0..=x are loaded in order; the first address out of
\* memory panics, after the loads before it.
process_opcode_fx65(x) ==
    /\ pc' = pc + 2
    /\ v' = [r \in 0..(V_REG_SIZE - 1) |->
                IF r <= x /\ i + r < MEMORY_SIZE THEN Load(memory, i + r) ELSE v[r]]
    /\ IF i + x >= MEMORY_SIZE THEN Panic ELSE Running
    /\ UNCHANGED <<memory, stack, i, sp, delay_timer, sound_timer, random>>

process_opcode_f(word) ==
    LET x == XOf(word)
        op == KKOf(word)
    IN  \/ op = 7 /\ process_opcode_fx07(x)
        \/ op = 10 /\ process_opcode_fx0a(x)
        \/ op = 21 /\ process_opcode_fx15(x)
        \/ op = 24 /\ process_opcode_fx18(x)
        \/ op = 30 /\ process_opcode_fx1e(x)
        \/ op = 41 /\ process_opcode_fx29(x)
        \/ op = 51 /\ process_opcode_fx33(x)
        \/ op = 85 /\ process_opcode_fx55(x)
        \/ op = 101 /\ process_opcode_fx65(x)
        \/ op \notin {7, 10, 21, 24, 30, 41, 51, 85, 101} /\ invalid_opcode(word)

process_opcode(word) ==
    LET op == OpOf(word)
    IN  \/ op = 0 /\ process_opcode_0(word)
        \/ op = 1 /\ process_opcode_1nnn(word)
        \/ op = 2 /\ process_opcode_2nnn(word)
        \/ op = 3 /\ process_opcode_3xkk(word)
        \/ op = 4 /\ process_opcode_4xkk(word)
        \/ op = 5 /\ process_opcode_5xy0(word)
        \/ op = 6 /\ process_opcode_6xkk(word)
        \/ op = 7 /\ process_opcode_7xkk(word)
        \/ op = 8 /\ process_opcode_8(word)
        \/ op = 9 /\ process_opcode_9xy0(word)
        \/ op = 10 /\ process_opcode_annn(word)
        \/ op = 11 /\ process_opcode_bnnn(word)
        \/ op = 12 /\ process_opcode_cxkk(word)
        \/ op = 13 /\ process_opcode_dxyn(word)
        \/ op = 14 /\ process_opcode_e(word)
        \/ op = 15 /\ process_opcode_f(word)

\* The CALL record after a step that fetched `word`: a completed CALL sets
\* it, a completed RET clears it, any other step leaves it.
CallAfter(word) ==
    IF status' # "running" THEN call
    ELSE IF OpOf(word) = 2 THEN [active |-> TRUE, pc |-> pc, sp |-> sp]
    ELSE IF word = 238 THEN NoCall
    ELSE call

\* The unmatched CALLs after a step that fetched `word`: a completed CALL is
\* added, a completed RET removes the most recent one.
CallsAfter(word) ==
    IF status' # "running" THEN calls
    ELSE IF OpOf(word) = 2 THEN Append(calls, pc)
    ELSE IF word = 238 /\ Len(calls) > 0 THEN SubSeq(calls, 1, Len(calls) - 1)
    ELSE calls

\* The bytes drawn since the last reset after a step that fetched `word`:
\* RND draws one.
DrawnAfter(word) == IF OpOf(word) = 12 THEN drawn + 1 ELSE drawn

\* VM::step: fetch the word at pc (out of memory: panic), then dispatch.
step ==
    /\ status = "running"
    /\ steps < MaxSteps
    /\ steps' = steps + 1
    /\ pre' = Snapshot
    /\ IF pc + 1 >= MEMORY_SIZE
       THEN /\ Panic
            /\ UNCHANGED <<memory, stack, v, i, pc, sp, delay_timer, sound_timer,
                           random, opcode, call, calls, drawn>>
       ELSE /\ opcode' = read_u16(pc)
            /\ process_opcode(read_u16(pc))
            /\ call' = CallAfter(read_u16(pc))
            /\ calls' = CallsAfter(read_u16(pc))
            /\ drawn' = DrawnAfter(read_u16(pc))

\* ------------------------------------------------------ host memory access
\* Addresses, words and bytes the host passes to write_u16 and write_u8.
MemAddrs == {0, 10, 11, 4094, 4095}
MemWords == {0, 255, 43707, 65280}
MemBytes == {0, 170}

\* The host calls write_u16(address, value): the high byte is stored first;
\* the index address + 1 out of memory panics after that store.
WriteU16(address, value) ==
    /\ status = "running"
    /\ IF address + 1 < MEMORY_SIZE
       THEN /\ memory' = write_u16(memory, address, value)
            /\ Running
       ELSE /\ memory' = Store(memory, address, AsU8(value \div 256))
            /\ Panic
    /\ UNCHANGED <<stack, v, i, pc, sp, delay_timer, sound_timer, random,
                   opcode, steps, pre, call, calls, drawn>>

\* The host calls write_u8(address, value).
WriteU8(address, value) ==
    /\ status = "running"
    /\ memory' = write_u8(memory, address, value)
    /\ UNCHANGED <<stack, v, i, pc, sp, delay_timer, sound_timer, random,
                   status, opcode, steps, pre, call, calls, drawn>>

\* A host that builds a machine and accesses its memory directly.
NextMem ==
    \/ Reset
    \/ \E address \in MemAddrs, value \in MemWords : WriteU16(address, value)
    \/ \E address \in MemAddrs, value \in MemBytes : WriteU8(address, value)

SpecMem == Init /\ [][NextMem]_vars

Next ==
    \/ Reset
    \/ \E bytes \in Roms : LoadRom(bytes)
    \/ \E x \in PokedRegs, value \in RegValues : SetV(x, value)
    \/ \E value \in AddrValues : SetI(value)
    \/ step

Spec == Init /\ [][Next]_vars

\* ------------------------------------------------------------------ claims
\* A step was taken and fetched a word: opcode' is the word it dispatched.
Fetched == steps' = steps + 1 /\ pc + 1 < MEMORY_SIZE
\* A step was taken and ran to its end without a panic.
Completed == Fetched /\ status' = "running"

RET == Word(0, 0, 14, 14)
Flag == V_REG_SIZE - 1
Frame == UNCHANGED <<memory, stack, v, i, sp, delay_timer, sound_timer>>

\* C1: a RET that is the next completed stack operation after a CALL leaves
\* pc at the address of the CALL plus 2, sp at its value before the CALL and
\* the stack slot that held the return address at 0.
C1_CallThenRet ==
    [][(Completed /\ opcode' = RET /\ call.active)
        => (/\ pc' = call.pc + 2
            /\ sp' = call.sp
            /\ stack'[call.sp - 1] = 0)]_vars

\* CALL 0x202 at 0x200 and the RET at 0x202 have completed.
C1_Witness ==
    /\ status = "running"
    /\ opcode = RET
    /\ steps = 2
    /\ pre.sp = STACK_SIZE - 1
    /\ pc = INITIAL_PC + 2
    /\ sp = STACK_SIZE
    /\ stack[STACK_SIZE - 1] = 0

\* The comparison a skip instruction word makes on the registers v.
SkipHolds(word, regs) ==
    LET x == (word \div 256) % 16
        y == (word \div 16) % 16
        kk == word % 256
    IN  CASE word \div 4096 = 3 -> regs[x] = kk
          [] word \div 4096 = 4 -> regs[x] # kk
          [] word \div 4096 = 5 -> regs[x] = regs[y]
          [] word \div 4096 = 9 -> regs[x] # regs[y]

IsSkip(word) ==
    \/ word \div 4096 \in {3, 4}
    \/ word \div 4096 \in {5, 9} /\ word % 16 = 0

\* C2: SE Vx,byte, SNE Vx,byte, SE Vx,Vy and SNE Vx,Vy leave pc at its
\* pre-step value plus 4 when the comparison holds and plus 2 otherwise, and
\* change no register, memory byte or stack entry.
C2_Skip ==
    [][(Fetched /\ IsSkip(opcode'))
        => (/\ status' = "running"
            /\ pc' = pc + (IF SkipHolds(opcode', v) THEN 4 ELSE 2)
            /\ Frame)]_vars

\* SNE V0,V1 has skipped on different registers.
C2_Witness ==
    /\ status = "running"
    /\ opcode = Word(9, 0, 1, 0)
    /\ pre.v[0] = 128
    /\ pre.v[1] = 1
    /\ pc = pre.pc + 4

\* C3: ADD Vx,Vy with x # 0xF completes with VF = 1 if Vx+Vy > 255 and 0
\* otherwise, and with Vx = (Vx+Vy) mod 256, for the values before the step.
C3_Add ==
    [][(Fetched /\ opcode' \div 4096 = 8 /\ opcode' % 16 = 4
            /\ (opcode' \div 256) % 16 # Flag)
        => LET x == (opcode' \div 256) % 16
               y == (opcode' \div 16) % 16
           IN  /\ status' = "running"
               /\ v'[Flag] = (IF v[x] + v[y] > 255 THEN 1 ELSE 0)
               /\ v'[x] = (v[x] + v[y]) % 256]_vars

\* ADD V1,VF has carried: 128 + 128.
C3_Witness ==
    /\ status = "running"
    /\ opcode = Word(8, 1, 15, 4)
    /\ pre.v[1] = 128
    /\ pre.v[Flag] = 128
    /\ v[1] = 0
    /\ v[Flag] = 1

\* C4: SUB Vx,Vy with x # 0xF and x # y completes, for all byte values, with
\* VF = 1 if Vx > Vy and 0 otherwise, and with Vx = (Vx - Vy) mod 256, for
\* the values before the step.
C4_Sub ==
    [][(Fetched /\ opcode' \div 4096 = 8 /\ opcode' % 16 = 5
            /\ (opcode' \div 256) % 16 # Flag
            /\ (opcode' \div 256) % 16 # (opcode' \div 16) % 16)
        => LET x == (opcode' \div 256) % 16
               y == (opcode' \div 16) % 16
           IN  /\ status' = "running"
               /\ v'[Flag] = (IF v[x] > v[y] THEN 1 ELSE 0)
               /\ v'[x] = (v[x] - v[y]) % 256]_vars

\* C5: SHL Vx with x # 0xF completes with VF = bit 7 of Vx before the step
\* and with Vx = (2 * Vx) mod 256.
C5_Shl ==
    [][(Fetched /\ opcode' \div 4096 = 8 /\ opcode' % 16 = 14
            /\ (opcode' \div 256) % 16 # Flag)
        => LET x == (opcode' \div 256) % 16
           IN  /\ status' = "running"
               /\ v'[Flag] = v[x] \div 128
               /\ v'[x] = (2 * v[x]) % 256]_vars

\* C6: SHR Vx with x # 0xF completes with VF = bit 0 of Vx before the step
\* and with Vx = Vx div 2, whatever the y field of the word is: no other
\* register changes.
C6_Shr ==
    [][(Fetched /\ opcode' \div 4096 = 8 /\ opcode' % 16 = 6
            /\ (opcode' \div 256) % 16 # Flag)
        => LET x == (opcode' \div 256) % 16
           IN  /\ status' = "running"
               /\ v'[Flag] = v[x] % 2
               /\ v'[x] = v[x] \div 2
               /\ \A r \in 0..(V_REG_SIZE - 1) : r \notin {x, Flag} => v'[r] = v[r]]_vars

\* SHR V0 {, V1} has shifted 1 out of V0 while V1 held another value.
C6_Witness ==
    /\ status = "running"
    /\ opcode = Word(8, 0, 1, 6)
    /\ pre.v[0] = 1
    /\ pre.v[1] = 128
    /\ v[0] = 0
    /\ v[1] = 128
    /\ v[Flag] = 1

IsStore(word) == word \div 4096 = 15 /\ word % 256 = 85
IsLoad(word) == word \div 4096 = 15 /\ word % 256 = 101

\* C7: LD [I],Vx followed by LD Vx,[I] with the same x and I (I+x < 4096)
\* leaves V0..Vx as they were before the store, memory[I..I+x] equal to
\* them, and I unchanged by both instructions.
C7_StoreThenLoad ==
    [][(/\ status = "running" /\ steps > 0 /\ IsStore(opcode)
        /\ Completed /\ IsLoad(opcode')
        /\ (opcode' \div 256) % 16 = (opcode \div 256) % 16)
        => LET x == (opcode \div 256) % 16
           IN  /\ pre.i + x < MEMORY_SIZE
               /\ i = pre.i
               /\ i' = pre.i
               /\ \A r \in 0..x :
                     /\ v'[r] = pre.v[r]
                     /\ Load(memory', pre.i + r) = pre.v[r]]_vars

\* LD [I],V1 then LD V1,[I] have completed at I = 10 with V0 and V1 set.
C7_Witness ==
    /\ status = "running"
    /\ steps = 2
    /\ opcode = Word(15, 1, 6, 5)
    /\ i = 10
    /\ v[0] = 128
    /\ v[1] = 1
    /\ Load(memory, 10) = 128
    /\ Load(memory, 11) = 1

\* C8: a CALL completes while the stack is not full (so 16 nested CALLs
\* complete from a fresh machine); a CALL on a full stack (sp = 0) does not
\* complete, overwrites no stack entry, and no step follows it.
C8_StackOverflow ==
    [][/\ (Fetched /\ opcode' \div 4096 = 2)
            => IF sp = 0
               THEN status' = "panicked" /\ stack' = stack
               ELSE status' = "running" /\ sp' = sp - 1
       /\ status = "panicked" => steps' # steps + 1]_vars

\* The 17th nested CALL has panicked on a stack of 16 return addresses.
C8_Witness ==
    /\ status = "panicked"
    /\ opcode = Word(2, 2, 0, 0)
    /\ steps = STACK_SIZE + 1
    /\ pre.sp = 0
    /\ \A s \in 0..(STACK_SIZE - 1) : stack[s] = INITIAL_PC + 2

\* C9: RET on an empty call stack (sp = STACK_SIZE) does not complete and
\* changes neither pc nor sp nor the stack.
C9_StackUnderflow ==
    [][(Fetched /\ opcode' = RET /\ sp = STACK_SIZE)
        => (status' = "panicked" /\ UNCHANGED <<pc, sp, stack>>)]_vars

\* RET has panicked after the one CALL was matched by a RET.
C9_Witness ==
    /\ status = "panicked"
    /\ opcode = RET
    /\ steps = 3
    /\ sp = STACK_SIZE
    /\ pc = INITIAL_PC + 2

\* The words whose secondary selector matches no instruction.
NoSubOpcode(word) ==
    \/ word \div 4096 = 8 /\ word % 16 \in {8, 9, 10, 11, 12, 13, 15}
    \/ word \div 4096 = 14 /\ word % 256 \notin {158, 161}
    \/ word \div 4096 = 15 /\ word % 256 \notin {7, 10, 21, 24, 30, 41, 51, 85, 101}

\* C10: a word 8xyN, ExKK or FxKK whose secondary selector matches no
\* instruction does not complete, no step follows it, and it changes no
\* register, pc, sp, stack entry or memory byte.
C10_DecodeError ==
    [][/\ (Fetched /\ NoSubOpcode(opcode'))
            => (status' = "panicked" /\ pc' = pc /\ Frame)
       /\ (status = "panicked" /\ steps > 0 /\ NoSubOpcode(opcode))
            => steps' # steps + 1]_vars

\* The word 0x801F has panicked with V0 and V1 set.
C10_Witness ==
    /\ status = "panicked"
    /\ opcode = Word(8, 0, 1, 15)
    /\ pc = INITIAL_PC
    /\ v[0] = 1
    /\ v[1] = 128

\* C11: reset() after any steps leaves every memory byte, stack entry and
\* general register 0, I and both timers 0, pc = 0x200 and sp = 16, the
\* values of a machine just built by new(). (After a step or a panic, reset
\* is the one operation that returns the step count to 0.)
C11_Reset ==
    [][((steps > 0 \/ status = "panicked") /\ steps' = 0)
        => (/\ \A a \in 0..(MEMORY_SIZE - 1) : Load(memory', a) = 0
            /\ \A s \in 0..(STACK_SIZE - 1) : stack'[s] = 0
            /\ \A r \in 0..(V_REG_SIZE - 1) : v'[r] = 0
            /\ i' = 0
            /\ delay_timer' = 0
            /\ sound_timer' = 0
            /\ pc' = 512
            /\ sp' = 16)]_vars

\* The machine has been reset after a run that drew a random byte.
C11_Witness ==
    /\ steps = 0
    /\ random = 1
    /\ status = "running"
    /\ memory = ZeroMemory
    /\ stack = ZeroStack
    /\ v = ZeroV
    /\ pc = INITIAL_PC
    /\ sp = STACK_SIZE

\* C12: ADD Vx,byte with x # 0xF completes, for every byte in Vx and every
\* kk, with Vx = (Vx + kk) mod 256, VF unchanged and pc advanced by 2.
C12_AddByte ==
    [][(Fetched /\ opcode' \div 4096 = 7 /\ (opcode' \div 256) % 16 # Flag)
        => LET x == (opcode' \div 256) % 16
               kk == opcode' % 256
           IN  /\ status' = "running"
               /\ v'[x] = (v[x] + kk) % 256
               /\ v'[Flag] = v[Flag]
               /\ pc' = pc + 2]_vars

C14_AddressFatal ==
    [][/\ (Fetched /\ opcode' \div 4096 = 11 /\ v[0] + (opcode' % 4096) >= MEMORY_SIZE)
            => status' = "panicked"
       /\ (Fetched /\ (IsStore(opcode') \/ IsLoad(opcode'))
                   /\ i + ((opcode' \div 256) % 16) >= MEMORY_SIZE)
            => status' = "panicked"
       /\ (steps' = steps + 1 /\ pc + 1 >= MEMORY_SIZE)
            => status' = "panicked"
       /\ (steps' = steps + 1 /\ status' = "running")
            => pc' < MEMORY_SIZE]_vars

ReadAddrs == {0, 1, 9, 10, 11, 12, 4093, 4094}

\* C16: write_u16(a, w) with a + 1 <= 4095 stores the high byte of w at a and
\* the low byte at a + 1 and changes no other memory byte, and read_u16(a)
\* afterwards returns w; read_u16(a) always equals
\* 256 * read_u8(a) + read_u8(a + 1).
C16_WordAccess ==
    /\ [][\A a \in MemAddrs, w \in MemWords :
            (a + 1 <= 4095 /\ WriteU16(a, w))
                => (/\ Load(memory', a) = w \div 256
                    /\ Load(memory', a + 1) = w % 256
                    /\ \A b \in (DOMAIN memory \cup DOMAIN memory') \ {a, a + 1} :
                           Load(memory', b) = Load(memory, b)
                    /\ read_u16(a)' = w)]_vars
    /\ [](\A a \in ReadAddrs : read_u16(a) = 256 * read_u8(a) + read_u8(a + 1))

\* write_u16(10, 0xAABB) has been called: memory[10] = 0xAA, memory[11] = 0xBB.
C16_Witness ==
    /\ status = "running"
    /\ Load(memory, 10) = 170
    /\ Load(memory, 11) = 187
    /\ read_u16(10) = 43707

\* C17: SUBN Vx,Vy with x # 0xF and x # y completes, for all byte values,
\* with VF = 1 if Vy > Vx and 0 otherwise, and with Vx = (Vy - Vx) mod 256,
\* for the values before the step.
C17_Subn ==
    [][(Fetched /\ opcode' \div 4096 = 8 /\ opcode' % 16 = 7
            /\ (opcode' \div 256) % 16 # Flag
            /\ (opcode' \div 256) % 16 # (opcode' \div 16) % 16)
        => LET x == (opcode' \div 256) % 16
               y == (opcode' \div 16) % 16
           IN  /\ status' = "running"
               /\ v'[Flag] = (IF v[y] > v[x] THEN 1 ELSE 0)
               /\ v'[x] = (v[y] - v[x]) % 256]_vars

\* C18: RND Vx,byte completes with every bit of Vx that is 0 in kk equal to 0
\* (so kk = 0 gives Vx = 0) and Vx = r AND kk for a byte r, with exactly one
\* byte drawn from the random source, pc advanced by 2 and no other register
\* changed.
C18_Rnd ==
    [][(Fetched /\ opcode' \div 4096 = 12)
        => LET x == (opcode' \div 256) % 16
               kk == opcode' % 256
           IN  /\ status' = "running"
               /\ \A k \in 0..7 :
                      (kk \div (2 ^ k)) % 2 = 0 => (v'[x] \div (2 ^ k)) % 2 = 0
               /\ kk = 0 => v'[x] = 0
               /\ \E r \in 0..255 : v'[x] = BitAnd(r, kk)
               /\ random' = random + 1
               /\ pc' = pc + 2
               /\ \A r \in 0..(V_REG_SIZE - 1) : r # x => v'[r] = v[r]
               /\ UNCHANGED <<i, sp, delay_timer, sound_timer>>]_vars

\* RND V1,0x0F has drawn the byte 0x6C: V1 = 12.
C18_Witness ==
    /\ status = "running"
    /\ opcode = Word(12, 1, 0, 15)
    /\ random = 1
    /\ v[1] = 12
    /\ pc = pre.pc + 2

\* The words of the instruction forms the machine does not implement: CLS,
\* SYS addr, DRW, SKP, SKNP, LD Vx,K, LD F,Vx and LD B,Vx.
Unimplemented(word) ==
    \/ word \div 4096 = 0 /\ word # RET
    \/ word \div 4096 = 13
    \/ word \div 4096 = 14 /\ word % 256 \in {158, 161}
    \/ word \div 4096 = 15 /\ word % 256 \in {10, 41, 51}

\* C19: a step on CLS, SYS addr, DRW, SKP, SKNP, LD Vx,K, LD F,Vx or
\* LD B,Vx does not complete, no step follows it, and it changes no
\* register, pc, sp, stack entry or memory byte.
C19_Unimplemented ==
    [][/\ (Fetched /\ Unimplemented(opcode'))
            => (status' = "panicked" /\ pc' = pc /\ Frame)
       /\ (status = "panicked" /\ steps > 0 /\ Unimplemented(opcode))
            => steps' # steps + 1]_vars

\* A step on DRW V0,V1,1 has panicked with pc still at the word.
C19_Witness ==
    /\ status = "panicked"
    /\ steps = 1
    /\ opcode = Word(13, 0, 1, 1)
    /\ pc = INITIAL_PC
    /\ sp = STACK_SIZE

\* C20 (as claimed): with V3 = 3 and I = 10, a step on 0xF355 completes with
\* memory[10..13] equal to V0..V3, memory[13] as it was before the step,
\* every other memory byte and every register unchanged, and pc advanced
\* by 2.
C20_StoreUntouched ==
    [][(Fetched /\ opcode' = Word(15, 3, 5, 5) /\ v[3] = 3 /\ i = 10)
        => (/\ status' = "running"
            /\ \A k \in 0..3 : Load(memory', 10 + k) = v[k]
            /\ Load(memory', 13) = Load(memory, 13)
            /\ \A a \in (DOMAIN memory \cup DOMAIN memory') \ (10..13) :
                   Load(memory', a) = Load(memory, a)
            /\ UNCHANGED <<v, i, sp, stack, delay_timer, sound_timer>>
            /\ pc' = pc + 2)]_vars

\* C20 (amended): with V3 = 3 and I = 10, a step on 0xF355 completes with
\* memory[10], memory[11], memory[12], memory[13] equal to V0, V1, V2, V3 (so
\* memory[13] becomes 3), every other memory byte and every register
\* unchanged, and pc advanced by 2.
C20_Store ==
    [][(Fetched /\ opcode' = Word(15, 3, 5, 5) /\ v[3] = 3 /\ i = 10)
        => (/\ status' = "running"
            /\ \A k \in 0..3 : Load(memory', 10 + k) = v[k]
            /\ Load(memory', 13) = 3
            /\ \A a \in (DOMAIN memory \cup DOMAIN memory') \ (10..13) :
                   Load(memory', a) = Load(memory, a)
            /\ UNCHANGED <<v, i, sp, stack, delay_timer, sound_timer>>
            /\ pc' = pc + 2)]_vars

\* LD V3,3 then 0xF355 have run with V0 = 1, V1 = 128 and I = 10: memory[13]
\* holds 3.
C20_Witness ==
    /\ status = "running"
    /\ steps = 2
    /\ opcode = Word(15, 3, 5, 5)
    /\ pre.v[3] = 3
    /\ pre.i = 10
    /\ Load(memory, 10) = 1
    /\ Load(memory, 11) = 128
    /\ Load(memory, 12) = 0
    /\ Load(memory, 13) = 3
    /\ pc = INITIAL_PC + 4

\* C21: over steps, delay_timer changes only in a step on LD DT,Vx, which
\* sets it to Vx, and sound_timer only in a step on LD ST,Vx, which sets it
\* to Vx; LD Vx,DT copies delay_timer into Vx and leaves both timers as they
\* were. No step counts a timer down.
C21_Timers ==
    [][steps' = steps + 1
        => LET x == (opcode' \div 256) % 16
               isFx(kk) == Fetched /\ opcode' \div 4096 = 15 /\ opcode' % 256 = kk
           IN  /\ delay_timer' # delay_timer => isFx(21)
               /\ sound_timer' # sound_timer => isFx(24)
               /\ isFx(21) => (status' = "running" /\ delay_timer' = v[x])
               /\ isFx(24) => (status' = "running" /\ sound_timer' = v[x])
               /\ isFx(7) => (/\ status' = "running"
                              /\ v'[x] = delay_timer
                              /\ delay_timer' = delay_timer
                              /\ sound_timer' = sound_timer)]_vars

\* LD DT,V1 with V1 = 128 then LD V0,DT have run: V0 = 128, and the delay
\* timer still holds 128.
C21_Witness ==
    /\ status = "running"
    /\ steps = 2
    /\ opcode = Word(15, 0, 0, 7)
    /\ pre.v[0] = 1
    /\ v[0] = 128
    /\ delay_timer = 128
    /\ sound_timer = 0

\* The flag an 8xyN flag-setting word defines from the registers regs: the
\* carry of ADD, the not-borrow of SUB and SUBN, the bit shifted out by SHR
\* and SHL.
FlagOf(word, regs) ==
    LET x == (word \div 256) % 16
        y == (word \div 16) % 16
    IN  CASE word % 16 = 4 -> IF regs[x] + regs[y] > 255 THEN 1 ELSE 0
          [] word % 16 = 5 -> IF regs[x] > regs[y] THEN 1 ELSE 0
          [] word % 16 = 6 -> regs[x] % 2
          [] word % 16 = 7 -> IF regs[y] > regs[x] THEN 1 ELSE 0
          [] word % 16 = 14 -> regs[x] \div 128

\* C22: after ADD Vx,Vy, SUB, SHR, SUBN or SHL completes, for every x and y
\* (x = 0xF included), VF is 0 or 1 and is the flag the instruction defines
\* from the register values before the step.
C22_Flag ==
    [][(Completed /\ opcode' \div 4096 = 8 /\ opcode' % 16 \in {4, 5, 6, 7, 14})
        => (/\ v'[Flag] \in {0, 1}
            /\ v'[Flag] = FlagOf(opcode', v))]_vars

C24_Reproducible ==
    [][/\ ((steps > 0 \/ status = "panicked") /\ steps' = 0)
            => (/\ memory' = ZeroMemory /\ stack' = ZeroStack /\ v' = ZeroV
                /\ i' = 0 /\ pc' = INITIAL_PC /\ sp' = STACK_SIZE)
       /\ (Fetched /\ opcode' \div 4096 = 12)
            => v'[(opcode' \div 256) % 16]
                   = BitAnd(RandomBytes[drawn + 1], opcode' % 256)]_vars

\* C25: a step on a word 5xyN or 9xyN with N # 0 does not complete and
\* leaves pc where it was; only 5xy0 runs as SE Vx,Vy and only 9xy0 as
\* SNE Vx,Vy.
C25_LowNibble ==
    [][(Fetched /\ opcode' \div 4096 \in {5, 9} /\ opcode' % 16 # 0)
        => (status' = "panicked" /\ pc' = pc)]_vars

====
